---- MODULE Spec2Model ----
(***************************************************************************)
(* Model of the processing-job queue of ffmpeg-frontend:                   *)
(*   QueueService   (src/unnamed/part_002, queueService.ts)                *)
(*   FFmpegService.executeArgs / extractProgressDetails                    *)
(*                  (src/src/main/services/ffmpegService.ts)               *)
(*                                                                         *)
(* The queue runs on the Node.js event loop.  Every public method runs to  *)
(* its first `await` without interruption; what follows an `await` of a    *)
(* child process (its exit, its stderr data, the detection of the binary)  *)
(* and every setTimeout callback is a separate step of the model.          *)
(*                                                                         *)
(* Job objects are JavaScript objects shared by reference between the Map  *)
(* `jobs` and the closures of executeJob: `job` below is the heap of job   *)
(* objects (indexed by id) and `jobs` is the key sequence of the Map in    *)
(* insertion order.  An object deleted from the Map stays on the heap as   *)
(* long as a suspended executeJob holds it.                                *)
(***************************************************************************)
EXTENDS Integers, Sequences, FiniteSets, TLC

\* ---------------------------------------------------------------- bounds
MaxJobs == 2        \* number of addJob calls in a run
MaxTimers == 1      \* setTimeout callbacks pending at once
MaxRetries == 2     \* largest maxRetriesPerJob passed to start()

\* ------------------------------------------------------ program constants
DefaultMaxRetries == 2
PctMax == 100

JobIds == 1..MaxJobs
NoJob == 0
\* the (inputFile, outputFile) pairs that jobs are added with
Pairs == {"a.mp4 -> a.mkv", "b.mp4 -> b.mkv"}
NoPair == ""
NoProcess == 0
Undefined == "<undefined>"
UnknownError == "Unknown error occurred"
NotFoundError == "FFmpeg not found. Please install FFmpeg or specify a custom path."
StderrText == "Conversion failed!"

\* durationSeconds comes from the metadata of the input file: a.mp4 has a
\* known duration, b.mp4 has none (0 stands for an absent duration)
DurationOf(pair) == IF pair = "a.mp4 -> a.mkv" THEN 120 ELSE 0

\* A timestamp token time=HH:MM:SS.00 of a stderr chunk
Token(hh, mm, ss) == <<hh, mm, ss>>
\* A stderr chunk is the sequence of the timestamp tokens it contains
Chunks == { <<>>,
            <<Token(0, 0, 60)>>,
            <<Token(0, 1, 0)>>,
            <<Token(0, 2, 0)>>,
            <<Token(0, 1, 0), Token(0, 2, 0)>>,
            <<Token(0, 3, 0)>> }

VARIABLES
    jobs,              \* Map keys in insertion order (Seq of job ids)
    job,               \* heap of job objects, by id
    activeJobId,       \* id of the active job, NoJob for null
    isRunning,
    currentProcess,    \* process handle held by the queue, NoProcess for null
    retryOnFail,
    maxRetriesPerJob,
    proc,              \* per job: the suspended executeJob and its process
    signalled,         \* processes (by job id) that were sent SIGTERM
    timers,            \* pending setTimeout(processNextJob, 100) callbacks
    ffmpegPath,        \* TRUE once the binary has been detected
    nextId             \* next fresh job id

vars == <<jobs, job, activeJobId, isRunning, currentProcess, retryOnFail,
          maxRetriesPerJob, proc, signalled, timers, ffmpegPath, nextId>>

\* The whole state as one record, so that handlers compose as the code does.
\* `emitted` is the output of a handler: the events it emits, in order;
\* `returned` is the value it returns (Undefined for a void handler).
cur == [jobs |-> jobs, job |-> job, activeJobId |-> activeJobId,
        isRunning |-> isRunning, currentProcess |-> currentProcess,
        retryOnFail |-> retryOnFail, maxRetriesPerJob |-> maxRetriesPerJob,
        proc |-> proc, signalled |-> signalled, timers |-> timers,
        ffmpegPath |-> ffmpegPath, nextId |-> nextId, emitted |-> <<>>,
        returned |-> Undefined]

Range(q) == { q[i] : i \in 1..Len(q) }

\* An id slot of the heap that addJob has not allocated yet
NoObject == [id |-> NoJob, status |-> "none", progress |-> 0, pair |-> NoPair,
             durationSeconds |-> 0, error |-> Undefined,
             startTime |-> FALSE, endTime |-> FALSE]

\* A job object is reachable from the Map or from a suspended executeJob;
\* any other object is garbage
Reachable(s, id) == id \in Range(s.jobs) \/ s.proc[id] # "none"

\* Map.has / Map.get
MapHas(s, id) == id \in Range(s.jobs)

\* Map.set: an existing key keeps its position, a new key goes to the end
MapSet(q, id) == IF id \in Range(q) THEN q ELSE Append(q, id)

\* Map.delete
MapDelete(q, id) == SelectSeq(q, LAMBDA k : k # id)

\* The state a handler leaves behind
Commit(s) ==
    /\ jobs' = s.jobs
    /\ job' = [j \in JobIds |-> IF Reachable(s, j) THEN s.job[j] ELSE NoObject]
    /\ activeJobId' = s.activeJobId
    /\ isRunning' = s.isRunning
    /\ currentProcess' = s.currentProcess
    /\ retryOnFail' = s.retryOnFail
    /\ maxRetriesPerJob' = s.maxRetriesPerJob
    /\ proc' = s.proc
    /\ signalled' = s.signalled
    /\ timers' = s.timers
    /\ ffmpegPath' = s.ffmpegPath
    /\ nextId' = s.nextId

\* ---------------------------------------------------------------- events
NoState == [jobs |-> <<>>, activeJobId |-> NoJob, isRunning |-> FALSE]

StateChangeEvent(st) ==
    [type |-> "stateChange", jobId |-> NoJob, success |-> FALSE,
     error |-> Undefined, progress |-> 0, state |-> st]

JobCompleteEvent(id, ok, err) ==
    [type |-> "jobComplete", jobId |-> id, success |-> ok,
     error |-> err, progress |-> 0, state |-> NoState]

ProgressEvent(id, p) ==
    [type |-> "progress", jobId |-> id, success |-> FALSE,
     error |-> Undefined, progress |-> p, state |-> NoState]

emit(s, e) == [s EXCEPT !.emitted = Append(@, e)]

\* `return value` of a handler
return(s, value) == [s EXCEPT !.returned = value]

\* ------------------------------------------------------------- getState
\* statusOrder with failed and canceled exchanged
statusOrderCanceledFirst(st) ==
    CASE st = "running" -> 0
      [] st = "queued" -> 1
      [] st = "completed" -> 2
      [] st = "failed" -> 4
      [] st = "canceled" -> 3

statusOrder(st) ==
    CASE st = "running" -> 0
      [] st = "queued" -> 1
      [] st = "completed" -> 2
      [] st = "failed" -> 3
      [] st = "canceled" -> 4

\* Array.prototype.sort is stable: equal keys keep the Map's order
SortByStatus(s) ==
    LET WithOrder(n) == SelectSeq(s.jobs, LAMBDA k : statusOrder(s.job[k].status) = n)
    IN WithOrder(0) \o WithOrder(1) \o WithOrder(2) \o WithOrder(3) \o WithOrder(4)

getState(s) ==
    LET ids == SortByStatus(s)
    IN [jobs |-> [i \in 1..Len(ids) |-> s.job[ids[i]]],
        activeJobId |-> s.activeJobId,
        isRunning |-> s.isRunning]

emitStateChange(s) == emit(s, StateChangeEvent(getState(s)))

\* -------------------------------------------- FFmpegService (progress)
NoPercent == -1
Min(a, b) == IF a < b THEN a ELSE b
Max(a, b) == IF a > b THEN a ELSE b

\* TimeSeconds with the minutes taken as seconds
TimeSecondsUnweighted(tok) == tok[1] * 3600 + tok[2] + tok[3]

\* parseInt(hh) * 3600 + parseInt(mm) * 60 + parseFloat(ss)
TimeSeconds(tok) == tok[1] * 3600 + tok[2] * 60 + tok[3]

\* String.prototype.match with a regular expression without the g flag
\* returns the first occurrence
timeMatch(chunk) == Head(chunk)

\* extractProgressDetails: percent is NoPercent for null
extractProgressDetails(chunk, totalDurationSeconds) ==
    IF chunk # <<>> /\ totalDurationSeconds > 0
    THEN [percent |-> Max(0, Min(PctMax,
                        (TimeSeconds(timeMatch(chunk)) * 100) \div totalDurationSeconds)),
          timeSeconds |-> TimeSeconds(timeMatch(chunk))]
    ELSE [percent |-> NoPercent,
          timeSeconds |-> IF chunk # <<>> THEN TimeSeconds(timeMatch(chunk)) ELSE 0]

\* ExecutionResult of executeArgs: exit code 0; a non-zero exit code with the
\* stderr text (possibly empty) or an 'error' event with its message
SuccessResult == [success |-> TRUE, error |-> Undefined]
FailureResults == { [success |-> FALSE, error |-> e] : e \in {"", StderrText} }
Results == {SuccessResult} \cup FailureResults

\* executeArgs up to the point where it suspends: with the binary already
\* detected the process is spawned before any other event is handled,
\* otherwise the call waits for detectFFmpeg
executeArgs(s, id) ==
    [s EXCEPT !.proc[id] = IF s.ffmpegPath THEN "alive" ELSE "detecting"]

\* ------------------------------------------------------- QueueService
\* cancelCurrentJob
cancelCurrentJob(s) ==
    IF s.activeJobId = NoJob THEN s
    ELSE IF ~MapHas(s, s.activeJobId) THEN s
    ELSE LET id == s.activeJobId
             s1 == IF s.currentProcess # NoProcess
                   THEN [s EXCEPT !.signalled = @ \cup {s.currentProcess},
                                  !.currentProcess = NoProcess]
                   ELSE s
         IN [s1 EXCEPT !.job[id].status = "canceled",
                       !.job[id].endTime = TRUE,
                       !.jobs = MapSet(@, id),
                       !.activeJobId = NoJob]

\* shouldRetryJob with `retryCount <= this.maxRetriesPerJob`
shouldRetryJobInclusive(s, id) ==
    Cardinality({ k \in Range(s.jobs) :
                    /\ s.job[k].pair = s.job[id].pair
                    /\ s.job[k].status = "failed" }) <= s.maxRetriesPerJob

\* shouldRetryJob
shouldRetryJob(s, id) ==
    Cardinality({ k \in Range(s.jobs) :
                    /\ s.job[k].pair = s.job[id].pair
                    /\ s.job[k].status = "failed" }) < s.maxRetriesPerJob

\* executeJob up to `await ffmpegService.executeArgs(...)`
executeJob(s, id) ==
    LET s1 == [s EXCEPT !.job[id].status = "running",
                        !.job[id].progress = 0,
                        !.job[id].startTime = TRUE,
                        !.job[id].error = Undefined,
                        !.activeJobId = id,
                        !.jobs = MapSet(@, id)]
    IN executeArgs(emitStateChange(s1), id)

\* processNextJob without its `if (!this.isRunning) return`
processNextJobUnguarded(s) ==
    LET queued == SelectSeq(s.jobs, LAMBDA k : s.job[k].status = "queued")
    IN IF queued = <<>>
       THEN emitStateChange([s EXCEPT !.isRunning = FALSE, !.activeJobId = NoJob])
       ELSE executeJob(s, Head(queued))

\* processNextJob
processNextJob(s) ==
    IF ~s.isRunning THEN s
    ELSE LET queued == SelectSeq(s.jobs, LAMBDA k : s.job[k].status = "queued")
         IN IF queued = <<>>
            THEN emitStateChange([s EXCEPT !.isRunning = FALSE,
                                           !.activeJobId = NoJob])
            ELSE executeJob(s, Head(queued))

\* the end of executeJob without its `setTimeout(() => this.processNextJob(), 100)`
executeJobEndsLoop(s) ==
    emitStateChange([s EXCEPT !.activeJobId = NoJob])

\* The end of executeJob, common to the try and the catch branch
executeJobEnd(s) ==
    LET s1 == emitStateChange([s EXCEPT !.activeJobId = NoJob])
    IN IF s1.isRunning THEN [s1 EXCEPT !.timers = @ + 1] ELSE s1

\* executeJobResolved without its `job.progress = 100`
executeJobResolvedKeepsProgress(s, id, result) ==
    LET s1 == [s EXCEPT !.proc[id] = "none", !.job[id].endTime = TRUE]
        s2 == IF result.success
              THEN [s1 EXCEPT !.job[id].status = "completed"]
              ELSE LET f == [s1 EXCEPT !.job[id].status = "failed",
                                       !.job[id].error =
                                          IF result.error \in {Undefined, ""}
                                          THEN UnknownError ELSE result.error]
                   IN IF f.retryOnFail /\ shouldRetryJob(f, id)
                      THEN [f EXCEPT !.job[id].status = "queued",
                                     !.job[id].progress = 0,
                                     !.job[id].startTime = FALSE,
                                     !.job[id].endTime = FALSE,
                                     !.job[id].error = Undefined]
                      ELSE f
        s3 == [s2 EXCEPT !.jobs = MapSet(@, id)]
        s4 == emit(s3, JobCompleteEvent(id, s3.job[id].status = "completed",
                                        s3.job[id].error))
    IN executeJobEnd(s4)

\* executeJobResolved with `job.error = result.error`, without the
\* `|| 'Unknown error occurred'`
executeJobResolvedRawError(s, id, result) ==
    LET s1 == [s EXCEPT !.proc[id] = "none", !.job[id].endTime = TRUE]
        s2 == IF result.success
              THEN [s1 EXCEPT !.job[id].status = "completed",
                              !.job[id].progress = PctMax]
              ELSE LET f == [s1 EXCEPT !.job[id].status = "failed",
                                       !.job[id].error = result.error]
                   IN IF f.retryOnFail /\ shouldRetryJob(f, id)
                      THEN [f EXCEPT !.job[id].status = "queued",
                                     !.job[id].progress = 0,
                                     !.job[id].startTime = FALSE,
                                     !.job[id].endTime = FALSE,
                                     !.job[id].error = Undefined]
                      ELSE f
        s3 == [s2 EXCEPT !.jobs = MapSet(@, id)]
        s4 == emit(s3, JobCompleteEvent(id, s3.job[id].status = "completed",
                                        s3.job[id].error))
    IN executeJobEnd(s4)

\* executeJob resumed with the result of executeArgs
\* result = [success |-> BOOLEAN, error |-> string or Undefined]
executeJobResolved(s, id, result) ==
    LET s1 == [s EXCEPT !.proc[id] = "none", !.job[id].endTime = TRUE]
        s2 == IF result.success
              THEN [s1 EXCEPT !.job[id].status = "completed",
                              !.job[id].progress = PctMax]
              ELSE LET f == [s1 EXCEPT !.job[id].status = "failed",
                                       !.job[id].error =
                                          IF result.error \in {Undefined, ""}
                                          THEN UnknownError ELSE result.error]
                   IN IF f.retryOnFail /\ shouldRetryJob(f, id)
                      THEN [f EXCEPT !.job[id].status = "queued",
                                     !.job[id].progress = 0,
                                     !.job[id].startTime = FALSE,
                                     !.job[id].endTime = FALSE,
                                     !.job[id].error = Undefined]
                      ELSE f
        s3 == [s2 EXCEPT !.jobs = MapSet(@, id)]
        s4 == emit(s3, JobCompleteEvent(id, s3.job[id].status = "completed",
                                        s3.job[id].error))
    IN executeJobEnd(s4)

\* executeJob resumed with executeArgs rejecting (the catch branch)
executeJobRejected(s, id, message) ==
    LET s1 == [s EXCEPT !.proc[id] = "none",
                        !.job[id].status = "failed",
                        !.job[id].error = message,
                        !.job[id].endTime = TRUE,
                        !.jobs = MapSet(@, id)]
        s2 == emit(s1, JobCompleteEvent(id, FALSE, message))
    IN executeJobEnd(s2)

\* updateJobProgress with `job.progress = progress`, without the clamp
updateJobProgressUnclamped(s, id, progress) ==
    IF ~MapHas(s, id) THEN s
    ELSE LET s1 == [s EXCEPT !.job[id].progress = progress,
                             !.jobs = MapSet(@, id)]
         IN emitStateChange(emit(s1, ProgressEvent(id, s1.job[id].progress)))

\* updateJobProgress, without the speed and eta details
updateJobProgress(s, id, progress) ==
    IF ~MapHas(s, id) THEN s
    ELSE LET s1 == [s EXCEPT !.job[id].progress = Max(0, Min(PctMax, progress)),
                             !.jobs = MapSet(@, id)]
         IN emitStateChange(emit(s1, ProgressEvent(id, s1.job[id].progress)))

\* the stderr 'data' handler of executeArgs for one chunk of the process of
\* job id: the callback is invoked when the chunk yields a percent
onStderrData(s, id, chunk) ==
    LET d == extractProgressDetails(chunk, s.job[id].durationSeconds)
    IN IF d.percent # NoPercent THEN updateJobProgress(s, id, d.percent) ELSE s

\* addJob
addJob(s, pair, duration) ==
    LET id == s.nextId
        newJob == [id |-> id, status |-> "queued", progress |-> 0,
                   pair |-> pair, durationSeconds |-> duration,
                   error |-> Undefined, startTime |-> FALSE, endTime |-> FALSE]
    IN emitStateChange([s EXCEPT !.job[id] = newJob,
                                 !.jobs = MapSet(@, id),
                                 !.nextId = @ + 1])

\* removeJob without its `if (!job) return false`
removeJobUnguarded(s, id) ==
    LET s1 == IF MapHas(s, id) /\ s.job[id].status = "running" /\ s.activeJobId = id
              THEN cancelCurrentJob(s) ELSE s
    IN return(emitStateChange([s1 EXCEPT !.jobs = MapDelete(@, id)]), TRUE)

\* removeJob
removeJob(s, id) ==
    IF ~MapHas(s, id) THEN return(s, FALSE)
    ELSE LET s1 == IF s.job[id].status = "running" /\ s.activeJobId = id
                   THEN cancelCurrentJob(s) ELSE s
         IN return(emitStateChange([s1 EXCEPT !.jobs = MapDelete(@, id)]), TRUE)

\* stop without its `this.isRunning = false`
stopStaysArmed(s) ==
    IF ~s.isRunning THEN s
    ELSE emitStateChange(cancelCurrentJob(s))

\* stop
stop(s) ==
    IF ~s.isRunning THEN s
    ELSE emitStateChange(cancelCurrentJob([s EXCEPT !.isRunning = FALSE]))

\* clearQueue
clearQueue(s) ==
    LET s1 == IF s.isRunning THEN stop(s) ELSE s
    IN emitStateChange([s1 EXCEPT !.jobs = <<>>])

\* start without its `if (this.isRunning) return`
startUnguarded(s, optRetryOnFail, optMaxRetries) ==
    processNextJob(emitStateChange(
        [s EXCEPT !.retryOnFail = optRetryOnFail,
                  !.maxRetriesPerJob = optMaxRetries,
                  !.isRunning = TRUE]))

\* start(options), up to its first suspension
start(s, optRetryOnFail, optMaxRetries) ==
    IF s.isRunning THEN s
    ELSE processNextJob(emitStateChange(
            [s EXCEPT !.retryOnFail = optRetryOnFail,
                      !.maxRetriesPerJob = optMaxRetries,
                      !.isRunning = TRUE]))

\* retryJob restarting the queue with the policy it finds instead of start()
retryJobKeepsPolicy(s, id) ==
    IF ~MapHas(s, id) \/ s.job[id].status # "failed" THEN return(s, FALSE)
    ELSE LET s1 == emitStateChange(
                     [s EXCEPT !.job[id].status = "queued",
                               !.job[id].progress = 0,
                               !.job[id].error = Undefined,
                               !.job[id].startTime = FALSE,
                               !.job[id].endTime = FALSE,
                               !.jobs = MapSet(@, id)])
         IN return(IF ~s1.isRunning THEN start(s1, s1.retryOnFail, s1.maxRetriesPerJob)
                   ELSE s1, TRUE)

\* retryJob
retryJob(s, id) ==
    IF ~MapHas(s, id) \/ s.job[id].status # "failed" THEN return(s, FALSE)
    ELSE LET s1 == emitStateChange(
                     [s EXCEPT !.job[id].status = "queued",
                               !.job[id].progress = 0,
                               !.job[id].error = Undefined,
                               !.job[id].startTime = FALSE,
                               !.job[id].endTime = FALSE,
                               !.jobs = MapSet(@, id)])
         IN return(IF ~s1.isRunning THEN start(s1, FALSE, DefaultMaxRetries)
                   ELSE s1, TRUE)

\* cancelJob
cancelJob(s, id) ==
    IF ~MapHas(s, id) THEN return(s, FALSE)
    ELSE return(IF s.job[id].status = "running" /\ s.activeJobId = id
                THEN cancelCurrentJob(s)
                ELSE IF s.job[id].status = "queued"
                THEN emitStateChange([s EXCEPT !.job[id].status = "canceled",
                                               !.job[id].endTime = TRUE,
                                               !.jobs = MapSet(@, id)])
                ELSE s, TRUE)

\* ---------------------------------------------------------------- Init
Init ==
    /\ jobs = <<>>
    /\ job = [j \in JobIds |-> NoObject]
    /\ activeJobId = NoJob
    /\ isRunning = FALSE
    /\ currentProcess = NoProcess
    /\ retryOnFail = FALSE
    /\ maxRetriesPerJob = DefaultMaxRetries
    /\ proc = [j \in JobIds |-> "none"]
    /\ signalled = {}
    /\ timers = 0
    /\ ffmpegPath = FALSE
    /\ nextId = 1

\* ------------------------------------------------------------- actions
\* user commands (IPC requests)
AddJob ==
    /\ nextId <= MaxJobs
    /\ \E pair \in Pairs : Commit(addJob(cur, pair, DurationOf(pair)))

RemoveJob ==
    \E id \in JobIds :
        /\ Commit(removeJob(cur, id))

ClearQueue ==
    /\ Commit(clearQueue(cur))

\* start() and start({retryOnFail: true, maxRetriesPerJob: n})
StartDefault ==
    /\ Commit(start(cur, FALSE, DefaultMaxRetries))

StartRetrying ==
    \E n \in 1..MaxRetries :
        /\ Commit(start(cur, TRUE, n))

Stop ==
    /\ Commit(stop(cur))

RetryJob ==
    \E id \in JobIds :
        /\ Commit(retryJob(cur, id))

CancelJob ==
    \E id \in JobIds :
        /\ Commit(cancelJob(cur, id))

\* detectFFmpeg finds the binary: executeArgs spawns the process
DetectOk ==
    \E id \in JobIds :
        /\ proc[id] = "detecting"
        /\ Commit([cur EXCEPT !.ffmpegPath = TRUE, !.proc[id] = "alive"])

\* detectFFmpeg throws: executeArgs rejects
DetectFail ==
    \E id \in JobIds :
        /\ proc[id] = "detecting"
        /\ isRunning => timers < MaxTimers
        /\ Commit(executeJobRejected(cur, id, NotFoundError))

\* stderr data of a live process
Progress ==
    \E id \in JobIds, chunk \in Chunks :
        /\ proc[id] = "alive"
        /\ Commit(onStderrData(cur, id, chunk))

\* 'close' of the process with exit code 0
ProcessExitOk ==
    \E id \in JobIds :
        /\ proc[id] = "alive"
        /\ isRunning => timers < MaxTimers
        /\ Commit(executeJobResolved(cur, id, SuccessResult))

\* 'close' with a non-zero code (error is the stderr text, possibly empty)
\* or 'error' of the process (error is the message of the spawn error)
ProcessExitFail ==
    \E id \in JobIds, res \in FailureResults :
        /\ proc[id] = "alive"
        /\ isRunning => timers < MaxTimers
        /\ Commit(executeJobResolved(cur, id, res))

\* a setTimeout(() => this.processNextJob(), 100) callback runs
TimerFire ==
    /\ timers > 0
    /\ Commit(processNextJob([cur EXCEPT !.timers = @ - 1]))

Next ==
    \/ AddJob
    \/ RemoveJob
    \/ ClearQueue
    \/ StartDefault
    \/ StartRetrying
    \/ Stop
    \/ RetryJob
    \/ CancelJob
    \/ DetectOk
    \/ DetectFail
    \/ Progress
    \/ ProcessExitOk
    \/ ProcessExitFail
    \/ TimerFire

Spec == Init /\ [][Next]_vars

\* --------------------------------------------------------- type sanity
Statuses == {"queued", "running", "completed", "failed", "canceled"}

TypeOK ==
    /\ Range(jobs) \subseteq JobIds
    /\ \A j \in JobIds : job[j].status \in Statuses \cup {"none"}
    /\ activeJobId \in JobIds \cup {NoJob}
    /\ isRunning \in BOOLEAN
    /\ timers \in 0..MaxTimers
    /\ nextId \in 1..(MaxJobs + 1)
    /\ \A j \in JobIds : proc[j] \in {"none", "detecting", "alive"}

\* ===================================================================
\* Properties
\* ===================================================================
RunningJobs == { j \in Range(jobs) : job[j].status = "running" }
LiveProcesses == { j \in JobIds : proc[j] = "alive" }

\* C1: in every reachable state at most one job of the collection has
\* status 'running'.
AtMostOneRunning == Cardinality(RunningJobs) <= 1

\* C2: in every reachable state at most one external process launched by
\* the queue is alive.
AtMostOneProcess == Cardinality(LiveProcesses) <= 1

\* C3: activeJobId mirrors the running job: it is set iff some job of the
\* collection is running, and when set it is the id of a running job of
\* the collection.
ActiveMirrorsRunning ==
    /\ (activeJobId # NoJob) <=> (RunningJobs # {})
    /\ activeJobId # NoJob => activeJobId \in RunningJobs

\* -------------------------------------------------------------------
\* The retry scenario: jobs are added and the queue is started with
\* retryOnFail = true; every process exits non-zero; no other command is
\* issued.  The event loop runs every pending callback and every process
\* exits, hence the fairness conditions.
RetryNext ==
    \/ AddJob
    \/ StartRetrying
    \/ DetectOk
    \/ Progress
    \/ ProcessExitFail
    \/ TimerFire

RetrySpec ==
    /\ Init
    /\ [][RetryNext]_vars
    /\ WF_vars(DetectOk)
    /\ WF_vars(ProcessExitFail)
    /\ WF_vars(TimerFire)

\* C4: with retries enabled and every process failing, the retries of a
\* job are bounded, so the queue eventually goes idle and stays idle.
RetryBound == <>[](~isRunning)

\* C5: a job of the collection whose status is 'canceled' keeps that status
\* in the next state unless it is removed.
CanceledIsTerminal ==
    [][\A j \in JobIds :
          (j \in Range(jobs) /\ job[j].status = "canceled" /\ j \in Range(jobs'))
              => job'[j].status = "canceled"]_vars

\* C6: whenever the active running job, whose process is alive, is canceled
\* (cancelJob, stop, removeJob, clearQueue), that process is sent a
\* termination signal.
CancelSignalsProcess ==
    [][\A j \in JobIds :
          (/\ j \in Range(jobs)
           /\ job[j].status = "running"
           /\ activeJobId = j
           /\ proc[j] = "alive"
           /\ job'[j].status = "canceled")
              => j \in signalled']_vars

\* C7: right after cancelJob(id) on the running active job the job is
\* 'canceled' with endTime set and activeJobId is cleared; right after a
\* stop() of the armed queue every job that was running is 'canceled' with
\* endTime set, activeJobId is cleared, isRunning is false and every queued
\* job is unchanged.
CancelTakesEffectAtOnce ==
    [][/\ \A id \in JobIds :
            (/\ id \in Range(jobs)
             /\ job[id].status = "running"
             /\ activeJobId = id
             /\ Commit(cancelJob(cur, id)))
                => (/\ job'[id].status = "canceled"
                    /\ job'[id].endTime
                    /\ activeJobId' = NoJob)
       /\ (isRunning /\ Commit(stop(cur)))
            => (/\ \A j \in RunningJobs :
                      job'[j].status = "canceled" /\ job'[j].endTime
                /\ activeJobId' = NoJob
                /\ ~isRunning'
                /\ \A j \in Range(jobs) :
                      job[j].status = "queued" => job'[j] = job[j])]_vars

\* the jobComplete events for job id among the events a handler emits
JobCompleteEvents(s, id) ==
    { i \in 1..Len(s.emitted) :
        s.emitted[i].type = "jobComplete" /\ s.emitted[i].jobId = id }

\* C8: no jobComplete event is emitted for a job whose status is 'canceled'
\* after it was canceled while running (when its process resolves or its
\* launch fails).
NoCompleteAfterCancel ==
    [][\A id \in JobIds :
          (job[id].status = "canceled" /\ proc[id] # "none")
              => /\ \A res \in Results :
                      (proc[id] = "alive" /\ Commit(executeJobResolved(cur, id, res)))
                          => JobCompleteEvents(executeJobResolved(cur, id, res), id) = {}
                 /\ (proc[id] = "detecting" /\ Commit(executeJobRejected(cur, id, NotFoundError)))
                          => JobCompleteEvents(executeJobRejected(cur, id, NotFoundError), id) = {}]_vars

\* C9: a job id enters the collection only through addJob (which gives it a
\* fresh id), so an id that removeJob has removed never comes back.
IdsEnterOnlyByAddJob ==
    [][\A j \in JobIds :
          (j \notin Range(jobs) /\ j \in Range(jobs'))
              => (nextId = j /\ nextId' = j + 1)]_vars

\* stop() followed by removeJob of every job of the collection
RECURSIVE RemoveAll(_, _)
RemoveAll(s, ids) ==
    IF ids = <<>> THEN s ELSE RemoveAll(removeJob(s, Head(ids)), Tail(ids))

\* C10: clearQueue() leaves the observable state of stop() followed by the
\* removal of every job (no job, isRunning false, no active job), and the
\* collection of a queue in that state stays empty until the next addJob.
ClearQueueClears ==
    [][/\ Commit(clearQueue(cur))
            => (/\ jobs' = <<>>
                /\ ~isRunning'
                /\ activeJobId' = NoJob
                /\ getState(clearQueue(cur)) = getState(RemoveAll(stop(cur), jobs)))
       /\ (jobs = <<>> /\ ~isRunning /\ activeJobId = NoJob /\ jobs' # <<>>)
            => nextId' = nextId + 1]_vars

\* ------------------------------------------------------------ C11 .. C20
Observable(s) == <<getState(s), s.jobs, s.activeJobId, s.isRunning>>

\* C11: stop() is idempotent: in every reachable state, calling stop() twice
\* in a row gives the same observable state (jobs, activeJobId, isRunning) as
\* calling it once, and that state has isRunning = false and no active job.
StopIsIdempotent ==
    LET once == stop(cur)
        twice == stop(once)
    IN /\ Observable(twice) = Observable(once)
       /\ \A j \in Range(once.jobs) : twice.job[j] = once.job[j]
       /\ ~once.isRunning
       /\ once.activeJobId = NoJob

\* a state that stop() produced: the queue is disarmed and the job it
\* canceled still has its process
StopHasActed ==
    /\ ~isRunning
    /\ \E j \in Range(jobs) : job[j].status = "canceled" /\ proc[j] = "alive"

TerminalStatuses == {"completed", "failed", "canceled"}

\* C12: cancelJob(id) on a job whose status is completed, failed or canceled
\* returns false and leaves the queue unchanged; it returns true only when
\* it canceled a queued or running job.
CancelTerminalReportsFailure ==
    \A id \in JobIds :
        LET s == cancelJob(cur, id)
        IN /\ (MapHas(cur, id) /\ job[id].status \in TerminalStatuses)
                => s = return(cur, FALSE)
           /\ s.returned = TRUE
                => /\ MapHas(cur, id) /\ job[id].status \in {"queued", "running"}
                   /\ s.job[id].status = "canceled"

\* C13: removeJob, retryJob and cancelJob with an id that is not in the
\* collection, and retryJob on a job whose status is not 'failed', return
\* false, emit no event and leave jobs, activeJobId, isRunning and the retry
\* policy (and everything else) unchanged.
RejectedCallsChangeNothing ==
    \A id \in JobIds :
        /\ ~MapHas(cur, id) =>
              \A s \in {removeJob(cur, id), retryJob(cur, id), cancelJob(cur, id)} :
                  /\ s.returned = FALSE
                  /\ s.emitted = <<>>
                  /\ s = return(cur, FALSE)
        /\ (MapHas(cur, id) /\ job[id].status # "failed") =>
              LET s == retryJob(cur, id)
              IN /\ s.returned = FALSE
                 /\ s.emitted = <<>>
                 /\ s = return(cur, FALSE)

\* an id that was removed from the collection while another job runs, and
\* a job in the collection that is not 'failed'
RejectedCallsPossible ==
    /\ \E id \in JobIds : id < nextId /\ ~MapHas(cur, id)
    /\ \E id \in Range(jobs) : job[id].status = "running"

\* the entry of job id in the payload of a stateChange event
JobInPayload(e, id) ==
    { e.state.jobs[i] : i \in { k \in 1..Len(e.state.jobs) : e.state.jobs[k].id = id } }

IsReset(j) ==
    /\ j.status = "queued" /\ j.progress = 0 /\ j.error = Undefined
    /\ ~j.startTime /\ ~j.endTime

\* C14: retryJob(id) on a 'failed' job sets it to 'queued' with progress 0
\* and error, startTime and endTime cleared (the state its first stateChange
\* event publishes); if isRunning was false the queue is then started with
\* the default policy (retries off, maxRetriesPerJob = 2), and if isRunning
\* was true the retry policy and the job's queued state are left as they are.
RetryJobRequeues ==
    \A id \in JobIds :
        (MapHas(cur, id) /\ job[id].status = "failed") =>
            LET s == retryJob(cur, id)
            IN /\ s.returned = TRUE
               /\ s.emitted # <<>>
               /\ s.emitted[1].type = "stateChange"
               /\ JobInPayload(s.emitted[1], id) # {}
               /\ \A j \in JobInPayload(s.emitted[1], id) : IsReset(j)
               /\ s.emitted[1].state.isRunning = isRunning
               /\ s.job[id].status \in {"queued", "running"}
               /\ s.job[id].progress = 0 /\ s.job[id].error = Undefined
               /\ ~s.job[id].endTime
               /\ s.jobs = jobs
               /\ isRunning =>
                     /\ IsReset(s.job[id])
                     /\ s.retryOnFail = retryOnFail
                     /\ s.maxRetriesPerJob = maxRetriesPerJob
                     /\ s.isRunning /\ s.activeJobId = activeJobId
                     /\ Len(s.emitted) = 1
               /\ ~isRunning =>
                     /\ s.retryOnFail = FALSE
                     /\ s.maxRetriesPerJob = DefaultMaxRetries
                     /\ s.isRunning

\* a failed job in an idle queue whose policy is not the default one
RetryJobRestarts ==
    /\ ~isRunning /\ retryOnFail
    /\ \E id \in Range(jobs) : job[id].status = "failed"

\* C15: start(options) while isRunning is already true is a no-op: it changes
\* no job, not activeJobId, not isRunning, not the retry policy, and it
\* dispatches nothing and emits nothing.
StartWhileRunningIsNoOp ==
    isRunning =>
        \A r \in BOOLEAN, n \in 1..MaxRetries :
            LET s == start(cur, r, n)
            IN /\ s.jobs = jobs /\ s.job = job
               /\ s.activeJobId = activeJobId /\ s.isRunning
               /\ s.retryOnFail = retryOnFail
               /\ s.maxRetriesPerJob = maxRetriesPerJob
               /\ s.proc = proc /\ s.timers = timers
               /\ s = cur

\* an armed queue between two jobs: a queued job waits for the timer, so a
\* start() that went through would dispatch it
StartWouldDispatch ==
    /\ isRunning /\ activeJobId = NoJob /\ timers > 0
    /\ \E id \in Range(jobs) : job[id].status = "queued"

\* a step that is a call of start() or of retryJob()
StartOrRetryCalled ==
    \/ \E r \in BOOLEAN, n \in 1..MaxRetries : Commit(start(cur, r, n))
    \/ \E id \in JobIds : Commit(retryJob(cur, id))

\* C16: addJob adds exactly one new job, 'queued' with progress 0, under an
\* id no job has or had, and leaves isRunning, activeJobId, the retry policy
\* and every existing job unchanged; a job that is queued while the queue is
\* idle (isRunning = false) becomes 'running' only in a call of start() or
\* retryJob().
AddJobOnlyEnqueues ==
    [][ /\ \A pair \in Pairs :
             (nextId <= MaxJobs /\ Commit(addJob(cur, pair, DurationOf(pair)))) =>
                 /\ job[nextId] = NoObject
                 /\ jobs' = Append(jobs, nextId)
                 /\ job'[nextId].status = "queued"
                 /\ job'[nextId].progress = 0
                 /\ job'[nextId].pair = pair
                 /\ \A j \in JobIds \ {nextId} : job'[j] = job[j]
                 /\ isRunning' = isRunning
                 /\ activeJobId' = activeJobId
                 /\ retryOnFail' = retryOnFail
                 /\ maxRetriesPerJob' = maxRetriesPerJob
                 /\ proc' = proc /\ timers' = timers
        /\ \A j \in Range(jobs) :
             (~isRunning /\ job[j].status = "queued" /\ job'[j].status = "running")
                 => StartOrRetryCalled
      ]_vars

\* a job is queued in an idle queue while a re-dispatch timer of an earlier
\* run is still pending
QueuedWhileIdle ==
    /\ ~isRunning /\ timers > 0
    /\ \E j \in Range(jobs) : job[j].status = "queued"

\* k was inserted into the collection before j
InsertedBefore(q, k, j) ==
    \E a, b \in 1..Len(q) : a < b /\ q[a] = k /\ q[b] = j

\* job j is dispatched in this step
Dispatched(j) ==
    /\ j \in Range(jobs) /\ job[j].status # "running"
    /\ j \in Range(jobs') /\ job'[j].status = "running"

\* the job the dispatch loop takes is the first queued job in insertion order
DispatchTakesFirstQueued ==
    [][ \A j \in JobIds : Dispatched(j) =>
            \A k \in Range(jobs) :
                InsertedBefore(jobs, k, j) => job[k].status # "queued" ]_vars

\* C17: whenever the dispatch loop moves a job to 'running', that job is the
\* earliest-inserted of the jobs that are 'queued'; so a job B inserted after
\* a job A is never dispatched while A is still queued or while A is running.
FifoDispatch ==
    [][ \A j \in JobIds : Dispatched(j) =>
            \A k \in Range(jobs) :
                InsertedBefore(jobs, k, j) => job[k].status \notin {"queued", "running"} ]_vars

\* The queue left to itself: jobs are added and the queue is started with
\* retries disabled; no stop, cancelJob, removeJob, clearQueue or retryJob.
\* Every launched process resolves and every timer fires.
DrainNext ==
    \/ AddJob
    \/ StartDefault
    \/ DetectOk
    \/ DetectFail
    \/ Progress
    \/ ProcessExitOk
    \/ ProcessExitFail
    \/ TimerFire

DrainSpec ==
    /\ Init
    /\ [][DrainNext]_vars
    /\ WF_vars(DetectOk \/ DetectFail)
    /\ WF_vars(ProcessExitOk \/ ProcessExitFail)
    /\ WF_vars(TimerFire)

\* C18: with retries disabled and no stop, cancelJob, removeJob or
\* clearQueue, if every launched process resolves then every job that is
\* queued while the queue is armed eventually is 'completed' or 'failed'
\* (a failing job does not hold back the jobs behind it), and the armed queue
\* eventually is idle: isRunning = false and no active job.
QueueDrains ==
    /\ \A j \in JobIds :
          (isRunning /\ j \in Range(jobs) /\ job[j].status = "queued")
              ~> (j \in Range(jobs) /\ job[j].status \in {"completed", "failed"})
    /\ isRunning ~> (~isRunning /\ activeJobId = NoJob)

\* the queue is idle again after a job failed and the job behind it completed
DrainedPastFailure ==
    /\ ~isRunning /\ activeJobId = NoJob
    /\ \E j, k \in Range(jobs) :
          /\ InsertedBefore(jobs, j, k)
          /\ job[j].status = "failed"
          /\ job[k].status = "completed"

HasError(j) == j.error \notin {Undefined, ""}

\* C19: in every reachable state a job has a non-empty error string exactly
\* when its status is 'failed', every 'failed' job has endTime set, and a
\* queued, running, completed or canceled job carries no error at all.
ErrorIffFailed ==
    \A j \in Range(jobs) :
        /\ HasError(job[j]) <=> job[j].status = "failed"
        /\ job[j].status = "failed" => job[j].endTime
        /\ job[j].status # "failed" => job[j].error = Undefined

\* a job failed with an empty process output, beside a canceled job
FailedWithoutOutput ==
    /\ \E j \in Range(jobs) : job[j].status = "failed" /\ job[j].error = UnknownError
    /\ \E j \in Range(jobs) : job[j].status = "canceled"

\* C20: within one run attempt of a job the percent values of successive
\* progress events never decrease, whatever chunks the process delivers.
\* (Every progress event carries job.progress as updateJobProgress has just
\* set it, and executeJob resets job.progress to 0 when the attempt begins.)
ProgressNeverDecreases ==
    [][ \A j \in JobIds :
          (/\ MapHas(cur, j) /\ job[j].status = "running"
           /\ proc[j] = "alive" /\ proc'[j] = "alive"
           /\ job'[j].status = "running")
              => job'[j].progress >= job[j].progress ]_vars

\* ------------------------------------------------------------ C21 .. C30
\* percent values a caller of the progress callback may pass, in and out of
\* the range
PercentInputs == {0 - 50, 0, 50, PctMax, PctMax + 50}

\* C21: in every reachable state the progress of every job lies in [0,100],
\* and updateJobProgress leaves it there whatever percent it is called with.
ProgressInRange ==
    /\ \A j \in JobIds : job[j] # NoObject => job[j].progress \in 0..PctMax
    /\ \A id \in Range(jobs), p \in PercentInputs :
          updateJobProgress(cur, id, p).job[id].progress \in 0..PctMax

\* a running job whose progress has been reported up to the upper limit
ProgressAtLimit ==
    \E j \in Range(jobs) :
        /\ job[j].status = "running" /\ proc[j] = "alive"
        /\ job[j].progress = PctMax

\* C22: in every reachable state every 'completed' job has progress 100.
CompletedIsFull ==
    \A j \in Range(jobs) :
        job[j].status = "completed" => job[j].progress = PctMax

\* a job without a known duration, hence without any progress report, has
\* completed
CompletedWithoutReports ==
    \E j \in Range(jobs) :
        job[j].status = "completed" /\ job[j].durationSeconds = 0

\* every jobComplete event for job id among the events of s comes after a
\* stateChange event that shows the job in the status the event reports
AnnouncedBefore(s, id) ==
    \A i \in JobCompleteEvents(s, id) :
        \E k \in 1..(i - 1) :
            /\ s.emitted[k].type = "stateChange"
            /\ \E j \in JobInPayload(s.emitted[k], id) :
                  j.status = IF s.emitted[i].success THEN "completed" ELSE "failed"

\* C23: a jobComplete event for a job is never delivered before a
\* stateChange event whose payload shows that job in the terminal status
\* (completed or failed) the jobComplete event reports.
CompleteFollowsStateChange ==
    \A id \in JobIds :
        /\ proc[id] = "alive" =>
              \A res \in Results : AnnouncedBefore(executeJobResolved(cur, id, res), id)
        /\ proc[id] = "detecting" =>
              AnnouncedBefore(executeJobRejected(cur, id, NotFoundError), id)

\* the handler that ended in s emitted a stateChange event whose payload is
\* the state it left, if it changed the observable state
Announces(s) ==
    getState(s) # getState(cur) =>
        \E i \in 1..Len(s.emitted) :
            /\ s.emitted[i].type = "stateChange"
            /\ s.emitted[i].state = getState(s)

\* C24: every operation that changes the observable queue state emits,
\* before it returns, a stateChange event whose payload equals the new
\* state: addJob, removeJob, clearQueue, start, stop, retryJob and cancelJob
\* on a queued or on the running job.
EveryChangeIsAnnounced ==
    /\ nextId <= MaxJobs =>
          \A pair \in Pairs : Announces(addJob(cur, pair, DurationOf(pair)))
    /\ \A id \in JobIds :
          /\ Announces(removeJob(cur, id))
          /\ Announces(retryJob(cur, id))
          /\ Announces(cancelJob(cur, id))
    /\ Announces(clearQueue(cur))
    /\ Announces(stop(cur))
    /\ \A r \in BOOLEAN, n \in 1..MaxRetries : Announces(start(cur, r, n))

\* the display priority of a status: running first, canceled last
PriorityOrder == <<"running", "queued", "completed", "failed", "canceled">>
Rank(st) == CHOOSE i \in 1..Len(PriorityOrder) : PriorityOrder[i] = st

\* C25: getState() returns all jobs of the collection, each once, ordered by
\* status priority running < queued < completed < failed < canceled with
\* jobs of equal status in insertion order, together with the current
\* activeJobId and isRunning.
GetStateOrdered ==
    LET st == getState(cur)
        n == Len(st.jobs)
    IN /\ n = Len(jobs)
       /\ { st.jobs[i].id : i \in 1..n } = Range(jobs)
       /\ \A i \in 1..n : st.jobs[i] = job[st.jobs[i].id]
       /\ \A i, k \in 1..n :
             i < k => /\ Rank(st.jobs[i].status) <= Rank(st.jobs[k].status)
                      /\ st.jobs[i].status = st.jobs[k].status
                           => InsertedBefore(jobs, st.jobs[i].id, st.jobs[k].id)
       /\ st.activeJobId = activeJobId
       /\ st.isRunning = isRunning

\* a collection whose insertion order is not the display order: a canceled
\* job was inserted before a failed one
GetStateReorders ==
    \E a, b \in Range(jobs) :
        /\ InsertedBefore(jobs, a, b)
        /\ job[a].status = "canceled" /\ job[b].status = "failed"

\* the transitions of the job state machine
ListedTransitions ==
    { <<"queued", "running">>, <<"running", "completed">>,
      <<"running", "failed">>, <<"running", "queued">>,
      <<"running", "canceled">>, <<"queued", "canceled">>,
      <<"failed", "queued">> }

\* C26: every change of a job's status is one of the listed transitions
\* (retryJob on an idle queue takes failed -> queued -> running in one call);
\* so 'completed' is entered only from 'running', and 'failed' and
\* 'canceled' only from 'running' or 'queued'.
OnlyListedTransitions ==
    [][ \A j \in JobIds :
          (/\ j \in Range(jobs) /\ j \in Range(jobs')
           /\ job'[j].status # job[j].status)
              => \/ <<job[j].status, job'[j].status>> \in ListedTransitions
                 \/ /\ job[j].status = "failed" /\ job'[j].status = "running"
                    /\ Commit(retryJob(cur, j)) ]_vars

\* the jobs of the collection with the input and output file of job id that
\* are 'failed' once the process of job id has exited non-zero: the failed
\* jobs beside it, and the job itself if it is (still) in the collection
FailedWithSameFiles(id) ==
    { k \in Range(jobs) :
        /\ job[k].pair = job[id].pair
        /\ k = id \/ job[k].status = "failed" }

\* C27: when the process of a job exits non-zero the job is requeued
\* ('queued', progress 0, error and timestamps cleared) exactly when the
\* retry policy is enabled and the number of 'failed' jobs of the collection
\* with its inputFile and outputFile is strictly less than maxRetriesPerJob;
\* otherwise it is 'failed', with an error and an endTime.
RetryEligibility ==
    \A id \in JobIds :
        proc[id] = "alive" =>
            \A res \in FailureResults :
                LET s == executeJobResolved(cur, id, res)
                    eligible == /\ retryOnFail
                                /\ Cardinality(FailedWithSameFiles(id)) < maxRetriesPerJob
                IN /\ eligible => IsReset(s.job[id])
                   /\ ~eligible => /\ s.job[id].status = "failed"
                                    /\ HasError(s.job[id])
                                    /\ s.job[id].endTime

\* retries are enabled with a limit of two and a job runs while another job
\* with the same files has failed
RetryLimitReached ==
    /\ retryOnFail /\ maxRetriesPerJob = 2
    /\ \E id, k \in Range(jobs) :
          /\ id # k /\ job[k].pair = job[id].pair
          /\ job[id].status = "running" /\ proc[id] = "alive"
          /\ job[k].status = "failed"

\* C28: a job becomes 'running' only while isRunning is true: after stop()
\* no job is dispatched until start() or retryJob() is called again, neither
\* by a re-dispatch timer that was pending when stop() was called nor when
\* the process of the stopped job exits.
DispatchOnlyWhileArmed ==
    [][ \A j \in JobIds :
          Dispatched(j) => /\ isRunning'
                           /\ isRunning \/ StartOrRetryCalled ]_vars

\* the queue was stopped while a job was running: its process has not
\* exited yet and another job is waiting
StoppedWithLiveProcess ==
    /\ ~isRunning
    /\ \E j \in Range(jobs) : job[j].status = "canceled" /\ proc[j] = "alive"
    /\ \E k \in Range(jobs) : job[k].status = "queued"

\* the progress callback leaves everything but the progress of job id alone
ProgressFrame(s, id) ==
    /\ s.jobs = jobs
    /\ s.activeJobId = activeJobId
    /\ s.isRunning = isRunning
    /\ \A k \in JobIds \ {id} : s.job[k] = job[k]
    /\ s.job[id] = [job[id] EXCEPT !.progress = s.job[id].progress]

\* C29: a progress callback changes only the progress fields of the job it
\* is for, never a status, error, startTime, endTime, activeJobId or
\* isRunning, and it changes them only while that job is 'running': a chunk
\* that arrives for a canceled or removed job changes nothing.
ProgressOnlyWhileRunning ==
    \A id \in JobIds, chunk \in Chunks :
        proc[id] = "alive" =>
            LET s == onStderrData(cur, id, chunk)
            IN /\ ProgressFrame(s, id)
               /\ (~MapHas(cur, id) \/ job[id].status # "running")
                     => s.job[id] = job[id]

Last(chunk) == chunk[Len(chunk)]

\* C30: when a chunk contains several timestamp tokens, the elapsed time
\* and the percent reported for it are those of the last token of the chunk.
LastTimestampWins ==
    \A id \in JobIds, chunk \in Chunks :
        (proc[id] = "alive" /\ chunk # <<>>) =>
            LET total == job[id].durationSeconds
                d == extractProgressDetails(chunk, total)
            IN /\ d.timeSeconds = TimeSeconds(Last(chunk))
               /\ total > 0 =>
                     d.percent = Max(0, Min(PctMax,
                                     (TimeSeconds(Last(chunk)) * 100) \div total))

\* ------------------------------------------------------------ C31 .. C33
\* inputs of the extractor: the chunks of the model and one with hours, and
\* durations that are negative, absent (0) and positive
ExtractorChunks == Chunks \cup { <<Token(1, 0, 0)>> }
ExtractorDurations == {0 - 120, 0, 60, 120, 240}

\* the percent values of the progress events among the events of s
ProgressPercents(s) ==
    LET idx == SelectSeq([i \in 1..Len(s.emitted) |-> i],
                         LAMBDA i : s.emitted[i].type = "progress")
    IN [i \in 1..Len(idx) |-> s.emitted[idx[i]].progress]

\* C31: for a chunk with the timestamp HH:MM:SS the extractor yields
\* elapsed = HH*3600 + MM*60 + SS and, for a positive duration D,
\* percent = min(100, max(0, elapsed*100/D)); without a positive duration or
\* without a timestamp it yields no percent and no progress event is raised.
\* With D = 120 the chunks 00:00:60, 00:01:00, 00:02:00 raise progress
\* events with the percents 50, 50, 100.
ExtractorFormula ==
    /\ \A chunk \in ExtractorChunks, total \in ExtractorDurations :
          LET d == extractProgressDetails(chunk, total)
          IN /\ Len(chunk) = 1 =>
                   LET hh == chunk[1][1]
                       mm == chunk[1][2]
                       ss == chunk[1][3]
                       elapsed == hh * 3600 + mm * 60 + ss
                   IN /\ d.timeSeconds = elapsed
                      /\ total > 0 =>
                            /\ elapsed * 100 >= PctMax * total => d.percent = PctMax
                            /\ elapsed * 100 < PctMax * total
                                  => d.percent * total = elapsed * 100
             /\ (total <= 0 \/ chunk = <<>>) => d.percent = NoPercent
    /\ \A id \in Range(jobs), chunk \in Chunks :
          (proc[id] = "alive" /\ (job[id].durationSeconds <= 0 \/ chunk = <<>>))
              => onStderrData(cur, id, chunk) = cur
    /\ \A id \in Range(jobs) :
          (proc[id] = "alive" /\ job[id].durationSeconds = 120) =>
              LET s1 == onStderrData(cur, id, <<Token(0, 0, 60)>>)
                  s2 == onStderrData(s1, id, <<Token(0, 1, 0)>>)
                  s3 == onStderrData(s2, id, <<Token(0, 2, 0)>>)
              IN /\ ProgressPercents(s3) = <<50, 50, 100>>
                 /\ s3.job[id].progress = 100

\* a running job of 120 seconds has been reported as half done
HalfReported ==
    \E j \in Range(jobs) :
        /\ job[j].status = "running" /\ proc[j] = "alive"
        /\ job[j].durationSeconds = 120 /\ job[j].progress = 50

\* C32: in every reachable state, isRunning = false implies that no job is
\* 'running' and that activeJobId is unset, also after stop() and start()
\* were called while the process of an earlier job was still alive.
IdleShowsNoRunningJob ==
    ~isRunning => (RunningJobs = {} /\ activeJobId = NoJob)

\* the jobComplete events for job id among the events of s agree with the
\* status the job has when they are emitted (the status s leaves it in)
CompleteMatchesStatus(s, id) ==
    /\ \A i \in JobCompleteEvents(s, id) :
          /\ s.emitted[i].success <=> s.job[id].status = "completed"
          /\ ~s.emitted[i].success <=> s.job[id].status = "failed"
          /\ ~s.emitted[i].success =>
                /\ s.emitted[i].error = s.job[id].error
                /\ s.emitted[i].error \notin {Undefined, ""}
    /\ s.job[id].status = "queued" => JobCompleteEvents(s, id) = {}

\* C33: every jobComplete event agrees with the job's status at emission:
\* success = true exactly when the job is 'completed', success = false
\* exactly when it is 'failed', then with the job's non-empty error; and no
\* jobComplete event is emitted for a job that is being auto-requeued.
CompleteAgreesWithStatus ==
    \A id \in JobIds :
        /\ proc[id] = "alive" =>
              \A res \in Results : CompleteMatchesStatus(executeJobResolved(cur, id, res), id)
        /\ proc[id] = "detecting" =>
              CompleteMatchesStatus(executeJobRejected(cur, id, NotFoundError), id)
====
